---- MODULE Spec2Model ----
(***************************************************************************)
(* SmartSync-Lighting: the polling loop of LightingOrchestrator, the       *)
(* colour selection it applies and the endpoints it writes to.             *)
(*                                                                         *)
(* The polling worker is modelled step by step (its position is pc); the   *)
(* main thread starts it and stops it (its position is main).  Variables   *)
(* named as in the source are the program's; tick, prev_lookup, sent and   *)
(* streak are observers that record what the worker did.                   *)
(***************************************************************************)
EXTENDS Integers, Sequences, FiniteSets, TLC

VARIABLES
    running,             \* LightingOrchestrator.running
    current_track,       \* LightingOrchestrator._current_track
    last_applied_color,  \* LightingOrchestrator._last_applied_color
    since_check,         \* time.time() - (last_track_check or 0), saturating
    retries,             \* _polling_loop's local retries
    no_track_logged,     \* _polling_loop's local no_track_logged
    pc,                  \* position of the polling worker
    track_info,          \* argument of the _sync_lighting call in flight
    color,               \* argument of the _apply_color call in flight
    idx,                 \* position of _apply_color's loop over self.endpoints
    main,                \* position of the main thread
    connected,           \* per endpoint: disconnect not yet called on it
    tick,                \* observer: what the current loop iteration did
    prev_lookup,         \* observer: the lookup result of the previous iteration
    sent,                \* observer: per endpoint, the last colour passed to set_color
    streak,              \* observer: the current uninterrupted no-track period
    config_ok,           \* whether config.config yields a polling interval time.sleep accepts
    call,                \* a call of a pure function or of a collaborator: argument and result
    boot,                \* the start-up of main(): configuration, endpoints, start
    api                  \* start and stop called in any order: the workers they create

vars == <<running, current_track, last_applied_color, since_check, retries,
          no_track_logged, pc, track_info, color, idx, main, connected,
          tick, prev_lookup, sent, streak, config_ok, call, boot, api>>

\* what the polling loop and its observers leave alone
aux == <<config_ok, call, boot, api>>

\* the polling loop's own state and its observers
loop_vars == <<running, current_track, last_applied_color, since_check, retries,
               no_track_logged, pc, track_info, color, idx, main, connected,
               tick, prev_lookup, sent, streak, config_ok>>

-----------------------------------------------------------------------------
(* Bounds of the model *)

NumEndpoints == 2
TimeCap == 15
MaxClusters == 2
StreakCap == 2
MaxN == 1
MaxEntries == 2
MaxStarts == 2
MaxDisconnects == 2
MaxCount == 2

(* Constants of the program *)

max_retries == 3
GraceWindow == 10
polling_interval == 5
error_sleep == 5
num_colors == 3
threshold == 30
min_intensity == 20
max_intensity == 235

-----------------------------------------------------------------------------
(* Values *)

None == <<>>

Min(a, b) == IF a < b THEN a ELSE b

Endpoints == 1..NumEndpoints

DefaultColor == <<255, 255, 255>>

Black == <<0, 0, 0>>
Grey == <<128, 128, 128>>
Red == <<200, 30, 30>>
NearWhite == <<240, 240, 240>>

\* The centroids a clustering of an artwork region may produce.
Colors == {Black, Grey, Red, NearWhite}

NoArt == "None"

\* Two tracks of the same name: one with artwork, one without.
TrackA == [name |-> "a", artist |-> "x", album_art |-> "url1"]
TrackB == [name |-> "a", artist |-> "y", album_art |-> NoArt]

\* What get_current_track may return besides None.
Tracks == {TrackA, TrackB}

\* What set_color may do: return True, return False, raise.
WriteOutcomes == {"ok", "fail", "raise"}

\* What the artwork of a track with an album_art reference may turn out to be:
\* the download returns None, the bytes do not decode, cv2 cannot be imported,
\* or the bytes decode to an image that is clustered.
ArtOutcomes == {"failed", "corrupt", "nocv2", "image"}

\* The cluster centres of one region, most populated first.
SortedCenters == UNION {[1..k -> Colors] : k \in 1..MaxClusters}

-----------------------------------------------------------------------------
(* ColorProcessor *)

\* sum(color) / 3 < threshold, the division being a float division
is_color_too_dark(c) == c[1] + c[2] + c[3] < 3 * threshold

\* the thresholds before they were tightened to 20..235
is_color_displayable_wide(c) ==
    \A i \in 1..3 : 10 <= c[i] /\ c[i] <= 245

\* the comparisons made strict
is_color_displayable_strict(c) ==
    \A i \in 1..3 : min_intensity < c[i] /\ c[i] < max_intensity

is_color_displayable(c) ==
    \A i \in 1..3 : min_intensity <= c[i] /\ c[i] <= max_intensity

\* _extract_colors_opencv from sorted_colors on: filter the dark ones, cut to n
extract_colors(sorted_colors, n) ==
    LET filtered_colors == SelectSeq(sorted_colors, LAMBDA c : ~is_color_too_dark(c))
    IN  SubSeq(filtered_colors, 1, Min(n, Len(filtered_colors)))

\* np.unique(labels, return_counts=True): the counts of the labels that occur,
\* in the order of the labels
unique_counts(counts) == SelectSeq(counts, LAMBDA n : n > 0)

\* the labels that occur, in ascending order
unique_labels(counts) ==
    SelectSeq([i \in 1..Len(counts) |-> i], LAMBDA i : counts[i] > 0)

\* np.argsort(-counts): the orders of the positions of counts that put the
\* larger counts first
argsort_desc(counts) ==
    {perm \in [1..Len(counts) -> 1..Len(counts)] :
        /\ \A i, j \in 1..Len(counts) : i # j => perm[i] # perm[j]
        /\ \A i, j \in 1..Len(counts) : i < j => counts[perm[i]] >= counts[perm[j]]}

\* _extract_colors_opencv from the return of cv2.kmeans on: sorted_indices are
\* positions in the counts of the labels that occur, and centers is indexed
\* with them
extract_colors_opencv(centers, counts, n) ==
    {extract_colors([j \in 1..Len(unique_counts(counts)) |-> centers[sorted_indices[j]]], n) :
        sorted_indices \in argsort_desc(unique_counts(counts))}

\* extract_dominant_colors' result for a decoded image
extract_dominant_colors(rawC, rawG) ==
    [center_colors |-> extract_colors(rawC, num_colors),
     global_colors |-> extract_colors(rawG, num_colors)]

\* extract_dominant_colors' result on ImportError: a dict with neither
\* 'center_colors' nor 'global_colors', which the selector reads as [].
ImportErrorPalette == [center_colors |-> <<>>, global_colors |-> <<>>]

\* The palettes extract_dominant_colors may return for a decoded image.
Palettes ==
    {extract_dominant_colors(rawC, rawG) : rawC \in SortedCenters, rawG \in SortedCenters}

Range(s) == {s[i] : i \in DOMAIN s}

-----------------------------------------------------------------------------
(* LightingOrchestrator._select_displayable_color *)

\* The colours the selector may return.  all_colors is rebuilt from a set, so
\* the order of the scan is the set's iteration order: any displayable
\* candidate that is not too dark may come first.
\* the selector without its last line: the function falls off its end
select_displayable_color_no_default(colors) ==
    LET all_colors == Range(colors.center_colors \o colors.global_colors)
        filtered_colors == {c \in all_colors : ~is_color_too_dark(c)}
        displayable == {c \in filtered_colors : is_color_displayable(c)}
    IN  IF displayable # {} THEN displayable ELSE {None}

\* the selector falling back on the first candidate, displayable or not
select_displayable_color_first(colors) ==
    LET candidates == colors.center_colors \o colors.global_colors
        all_colors == Range(candidates)
        filtered_colors == {c \in all_colors : ~is_color_too_dark(c)}
        displayable == {c \in filtered_colors : is_color_displayable(c)}
    IN  IF displayable # {} THEN displayable
        ELSE IF candidates # <<>> THEN {Head(candidates)} ELSE {DefaultColor}

select_displayable_color(colors) ==
    LET all_colors == Range(colors.center_colors \o colors.global_colors)
        filtered_colors == {c \in all_colors : ~is_color_too_dark(c)}
        displayable == {c \in filtered_colors : is_color_displayable(c)}
    IN  IF displayable # {} THEN displayable ELSE {DefaultColor}

-----------------------------------------------------------------------------
(* Decisions of _polling_loop and _apply_color *)

\* a comparison of the track names only
IsNewTrackByName(t, cur) ==
    IF t = None THEN FALSE ELSE IF cur = None THEN TRUE ELSE t.name # cur.name

\* no comparison with the current track
IsNewTrackAlways(t, cur) == t # None

\* current_track and current_track != self._current_track
IsNewTrack(t, cur) == t # None /\ t # cur

\* not current_track and time.time() - (last_track_check or 0) > 10
NoTrackPastGrace(t, elapsed) == t = None /\ elapsed > GraceWindow

\* no suppression of an unchanged colour
ColorUnchangedNever(c, last) == FALSE

\* color == self._last_applied_color
ColorUnchanged(c, last) == c = last

\* the last applied colour left as it was
NewLastAppliedStale(c, last) == last

\* self._last_applied_color = color
NewLastApplied(c, last) == c

\* an exception that leaves the loop over the endpoints
AfterWriteAbort(o, i) == IF o # "raise" /\ i < NumEndpoints THEN "write" ELSE "after"

\* where the worker goes after endpoint i's set_color ended with outcome o:
\* the except clause is inside the for loop, so the loop goes on.
AfterWrite(o, i) == IF i < NumEndpoints THEN "write" ELSE "after"

\* not (not track_info or not track_info.get('album_art'))
HasArt(info) == IF info = None THEN FALSE ELSE info.album_art # NoArt

\* an exception that is not caught inside the loop ends the worker
AfterPollingErrorExit == "exited"

\* where the worker goes after the loop's except clause: back to the while
AfterPollingError == "while"

\* retries after _sync_lighting returned to the loop
RetriesAfterSync(info, r) == IF info = None THEN 0 ELSE r

-----------------------------------------------------------------------------
(* Observers *)

FreshTick ==
    [looked |-> FALSE, lookup |-> None, prev_track |-> current_track,
     prev_retries |-> retries, prev_last |-> last_applied_color,
     in_grace |-> FALSE, consec |-> 0,
     branch |-> "none", sync_calls |-> 0, art |-> "na",
     undisplayable |-> FALSE, applied |-> FALSE, skipped |-> FALSE,
     called |-> <<>>, outcome |-> <<>>,
     slept_before |-> (IF tick.looked THEN tick.slept ELSE TRUE),
     after_raise |-> tick.raised,
     defaulted |-> (IF tick.branch = "degraded" /\ tick.applied THEN TRUE
                    ELSE IF tick.branch = "new" THEN FALSE
                    ELSE tick.defaulted),
     late_write |-> FALSE,
     slept |-> FALSE, raised |-> FALSE]

NoStreak ==
    [active |-> FALSE, since_fail |-> 0, consec |-> 0, degraded |-> 0,
     start_color |-> None, writes |-> [e \in Endpoints |-> 0]]

\* the streak after a lookup that returned t
StreakAfterLookup(t) ==
    IF t # None THEN NoStreak
    ELSE LET s == IF streak.active THEN streak
                  ELSE [NoStreak EXCEPT !.active = TRUE,
                                        !.start_color = last_applied_color]
         IN  [s EXCEPT !.consec =
                  IF since_check > GraceWindow THEN Min(s.consec + 1, max_retries + 1)
                  ELSE 0]

\* the tick record after a lookup that returned t and took branch b
TickAfterLookup(t, b) ==
    [tick EXCEPT !.looked = TRUE, !.lookup = t, !.branch = b,
                 !.in_grace = (t = None /\
                     (IF streak.active THEN streak.since_fail ELSE 0) <= GraceWindow),
                 !.consec = IF streak.active THEN streak.consec ELSE 0]

-----------------------------------------------------------------------------
(* Initial state: the orchestrator as __init__ leaves it, endpoints connected *)

InitLoop ==
    /\ running = FALSE
    /\ current_track = None
    /\ last_applied_color = None
    /\ since_check = TimeCap
    /\ retries = 0
    /\ no_track_logged = FALSE
    /\ pc = "init"
    /\ track_info = None
    /\ color = None
    /\ idx = 1
    /\ main = "created"
    /\ connected = [e \in Endpoints |-> TRUE]
    /\ tick = [looked |-> FALSE, lookup |-> None, prev_track |-> None,
               prev_retries |-> 0, prev_last |-> None,
               in_grace |-> FALSE, consec |-> 0,
               branch |-> "none", sync_calls |-> 0, art |-> "na",
               undisplayable |-> FALSE, applied |-> FALSE, skipped |-> FALSE,
               called |-> <<>>, outcome |-> <<>>,
               slept_before |-> TRUE, after_raise |-> FALSE,
               defaulted |-> FALSE, late_write |-> FALSE,
               slept |-> FALSE, raised |-> FALSE]
    /\ config_ok \in BOOLEAN
    /\ prev_lookup = <<"first">>
    /\ sent = [e \in Endpoints |-> None]
    /\ streak = NoStreak

Init ==
    /\ InitLoop
    /\ call = None
    /\ boot = None
    /\ api = None

-----------------------------------------------------------------------------
(* Main thread: start and stop *)

\* LightingOrchestrator.start
Start ==
    /\ main = "created"
    /\ NumEndpoints > 0
    /\ running' = TRUE
    /\ pc' = "while"
    /\ main' = "paused"
    /\ UNCHANGED aux
    /\ UNCHANGED <<current_track, last_applied_color, since_check, retries,
                   no_track_logged, track_info, color, idx, connected,
                   tick, prev_lookup, sent, streak>>

\* stop up to its join: self.running = False, then disconnect on every endpoint
Stop ==
    /\ main = "paused"
    /\ running' = FALSE
    /\ connected' = [e \in Endpoints |-> FALSE]
    /\ main' = "join"
    /\ UNCHANGED aux
    /\ UNCHANGED <<current_track, last_applied_color, since_check, retries,
                   no_track_logged, pc, track_info, color, idx,
                   tick, prev_lookup, sent, streak>>

\* stop: self.poll_thread.join() returns once the worker has ended
StopJoin ==
    /\ main = "join"
    /\ pc = "exited"
    /\ main' = "stopped"
    /\ UNCHANGED aux
    /\ UNCHANGED <<running, current_track, last_applied_color, since_check,
                   retries, no_track_logged, pc, track_info, color, idx,
                   connected, tick, prev_lookup, sent, streak>>

-----------------------------------------------------------------------------
(* Polling worker *)

\* while self.running:
WhileCheck ==
    /\ pc = "while"
    /\ IF running
       THEN /\ pc' = "lookup"
            /\ tick' = FreshTick
            /\ prev_lookup' = IF tick.looked THEN tick.lookup ELSE prev_lookup
       ELSE /\ pc' = "exited"
            /\ UNCHANGED <<tick, prev_lookup>>
    /\ UNCHANGED aux
    /\ UNCHANGED <<running, current_track, last_applied_color, since_check,
                   retries, no_track_logged, track_info, color, idx, main,
                   connected, sent, streak>>

\* get_current_track returned t, a track that differs from the current one
LookupNewTrack(t) ==
    /\ pc = "lookup"
    /\ IsNewTrack(t, current_track)
    /\ current_track' = t
    /\ since_check' = 0
    /\ retries' = 0
    /\ no_track_logged' = FALSE
    /\ track_info' = t
    /\ pc' = "sync"
    /\ tick' = TickAfterLookup(t, "new")
    /\ streak' = StreakAfterLookup(t)
    /\ UNCHANGED aux
    /\ UNCHANGED <<running, last_applied_color, color, idx, main,
                   connected, prev_lookup, sent>>

\* no track, past the grace window, retries left: count and continue
LookupRetry(t) ==
    /\ pc = "lookup"
    /\ ~IsNewTrack(t, current_track)
    /\ NoTrackPastGrace(t, since_check)
    /\ retries < max_retries
    /\ retries' = retries + 1
    /\ no_track_logged' = TRUE
    /\ pc' = "while"
    /\ tick' = TickAfterLookup(t, "retry")
    /\ streak' = StreakAfterLookup(t)
    /\ UNCHANGED aux
    /\ UNCHANGED <<running, current_track, last_applied_color, since_check,
                   track_info, color, idx, main, connected, prev_lookup,
                   sent>>

\* no track, past the grace window, no retries left: self._sync_lighting(None)
LookupDegraded(t) ==
    /\ pc = "lookup"
    /\ ~IsNewTrack(t, current_track)
    /\ NoTrackPastGrace(t, since_check)
    /\ ~(retries < max_retries)
    /\ no_track_logged' = TRUE
    /\ track_info' = None
    /\ pc' = "sync"
    /\ tick' = TickAfterLookup(t, "degraded")
    /\ streak' = StreakAfterLookup(t)
    /\ UNCHANGED aux
    /\ UNCHANGED <<running, current_track, last_applied_color, since_check,
                   retries, color, idx, main, connected, prev_lookup,
                   sent>>

\* neither branch: the current track again, or no track within the window
LookupIdle(t) ==
    /\ pc = "lookup"
    /\ ~IsNewTrack(t, current_track)
    /\ ~NoTrackPastGrace(t, since_check)
    /\ pc' = "sleep"
    /\ tick' = TickAfterLookup(t, "idle")
    /\ streak' = StreakAfterLookup(t)
    /\ UNCHANGED aux
    /\ UNCHANGED <<running, current_track, last_applied_color, since_check,
                   retries, no_track_logged, track_info, color, idx, main,
                   connected, prev_lookup, sent>>

\* _apply_color(c) up to its loop over the endpoints; tk is the tick record
\* of the _sync_lighting call that makes it.
ApplyColor(c, tk) ==
    IF ColorUnchanged(c, last_applied_color)
    THEN /\ pc' = "after"
         /\ tick' = [tk EXCEPT !.skipped = TRUE]
         /\ UNCHANGED <<last_applied_color, color, idx>>
    ELSE /\ last_applied_color' = NewLastApplied(c, last_applied_color)
         /\ color' = c
         /\ idx' = 1
         /\ pc' = "write"
         /\ tick' = [tk EXCEPT !.applied = TRUE]

\* _sync_lighting with no track or no album art: _apply_default_color
SyncDefault ==
    /\ pc = "sync"
    /\ ~HasArt(track_info)
    /\ ApplyColor(DefaultColor,
                  [tick EXCEPT !.sync_calls = @ + 1,
                               !.art = IF track_info = None THEN "na" ELSE "absent"])
    /\ UNCHANGED aux
    /\ UNCHANGED <<running, current_track, since_check, retries,
                   no_track_logged, track_info, main, connected,
                   prev_lookup, sent, streak>>

\* _sync_lighting whose download or extraction raises: the except clause
\* logs the error and no colour is applied
SyncError(art) ==
    /\ pc = "sync"
    /\ HasArt(track_info)
    /\ art \in {"failed", "corrupt"}
    /\ pc' = "after"
    /\ tick' = [tick EXCEPT !.sync_calls = @ + 1, !.art = art]
    /\ UNCHANGED aux
    /\ UNCHANGED <<running, current_track, last_applied_color, since_check,
                   retries, no_track_logged, track_info, color, idx, main,
                   connected, prev_lookup, sent, streak>>

\* _sync_lighting that extracts a palette, selects a colour and applies it
SyncArtwork(art, colors) ==
    /\ pc = "sync"
    /\ HasArt(track_info)
    /\ art \in {"nocv2", "image"}
    /\ \E c \in select_displayable_color(colors) :
          ApplyColor(c,
              [tick EXCEPT !.sync_calls = @ + 1, !.art = art,
                           !.undisplayable =
                               \E x \in Range(colors.center_colors \o colors.global_colors) :
                                   ~is_color_displayable(x)])
    /\ UNCHANGED aux
    /\ UNCHANGED <<running, current_track, since_check, retries,
                   no_track_logged, track_info, main, connected,
                   prev_lookup, sent, streak>>

\* _apply_color: endpoint.set_color(color) on the next endpoint, with outcome o
WriteEndpoint(o) ==
    /\ pc = "write"
    /\ sent' = [sent EXCEPT ![idx] = color]
    /\ tick' = [tick EXCEPT !.called = Append(@, idx), !.outcome = Append(@, o),
                            !.late_write = @ \/ ~connected[idx]]
    /\ streak' = IF streak.active /\ color = DefaultColor
                 THEN [streak EXCEPT !.writes[idx] = @ + 1]
                 ELSE streak
    /\ idx' = idx + 1
    /\ pc' = AfterWrite(o, idx)
    /\ UNCHANGED aux
    /\ UNCHANGED <<running, current_track, last_applied_color, since_check,
                   retries, no_track_logged, track_info, color, main,
                   connected, prev_lookup>>

\* back in the loop after _sync_lighting: retries = 0 after the null call
AfterSync ==
    /\ pc = "after"
    /\ retries' = RetriesAfterSync(track_info, retries)
    /\ streak' = IF track_info = None /\ streak.active
                 THEN [streak EXCEPT !.degraded = Min(@ + 1, StreakCap)]
                 ELSE streak
    /\ pc' = "sleep"
    /\ UNCHANGED aux
    /\ UNCHANGED <<running, current_track, last_applied_color, since_check,
                   no_track_logged, track_info, color, idx, main,
                   connected, tick, prev_lookup, sent>>

\* time.sleep(polling_interval)
Sleep ==
    /\ pc = "sleep"
    /\ config_ok
    /\ tick' = [tick EXCEPT !.slept = TRUE]
    /\ since_check' = Min(since_check + polling_interval, TimeCap)
    /\ streak' = IF streak.active
                 THEN [streak EXCEPT !.since_fail = Min(@ + polling_interval, TimeCap)]
                 ELSE streak
    /\ pc' = "while"
    /\ UNCHANGED aux
    /\ UNCHANGED <<running, current_track, last_applied_color, retries,
                   no_track_logged, track_info, color, idx, main,
                   connected, prev_lookup, sent>>

\* the interval lookup or time.sleep raises: the except clause of the loop
\* prints the error and sleeps 5 seconds
SleepError ==
    /\ pc = "sleep"
    /\ ~config_ok
    /\ tick' = [tick EXCEPT !.slept = TRUE, !.raised = TRUE]
    /\ since_check' = Min(since_check + error_sleep, TimeCap)
    /\ streak' = IF streak.active
                 THEN [streak EXCEPT !.since_fail = Min(@ + error_sleep, TimeCap)]
                 ELSE streak
    /\ pc' = AfterPollingError
    /\ UNCHANGED aux
    /\ UNCHANGED <<running, current_track, last_applied_color, retries,
                   no_track_logged, track_info, color, idx, main,
                   connected, prev_lookup, sent>>

-----------------------------------------------------------------------------

Next ==
    \/ Start
    \/ Stop
    \/ StopJoin
    \/ WhileCheck
    \/ \E t \in Tracks \cup {None} : LookupNewTrack(t)
    \/ \E t \in Tracks \cup {None} : LookupRetry(t)
    \/ \E t \in Tracks \cup {None} : LookupDegraded(t)
    \/ \E t \in Tracks \cup {None} : LookupIdle(t)
    \/ SyncDefault
    \/ \E art \in ArtOutcomes : SyncError(art)
    \/ SyncArtwork("nocv2", ImportErrorPalette)
    \/ \E colors \in Palettes : SyncArtwork("image", colors)
    \/ \E o \in WriteOutcomes : WriteEndpoint(o)
    \/ AfterSync
    \/ Sleep
    \/ SleepError

Spec == Init /\ [][Next]_vars

-----------------------------------------------------------------------------
(* The pure functions of ColorProcessor and the selector, called on their own *)

\* channel values on both sides of the thresholds
Channels == {0, 19, 20, 21, 128, 234, 235, 236, 255}

RGB == {<<r, g, b>> : r \in Channels, g \in Channels, b \in Channels}

\* what cv2.kmeans hands back for k requested clusters: one centroid per
\* cluster and, through the labels, the number of pixels of each cluster
Clusterings(k) ==
    {[centers |-> ce, counts |-> co] :
        ce \in [1..k -> Colors],
        co \in {f \in [1..k -> 0..MaxCount] : \E i \in 1..k : f[i] > 0}}

InitColor ==
    /\ InitLoop
    /\ config_ok
    /\ call = [fn |-> "none"]
    /\ boot = None
    /\ api = None

\* ColorProcessor.is_color_displayable(c), for any colour c
CallDisplayable ==
    /\ call.fn = "none"
    /\ \E c \in RGB :
          call' = [fn |-> "is_color_displayable", arg |-> c,
                   res |-> is_color_displayable(c)]
    /\ UNCHANGED <<loop_vars, boot, api>>

\* LightingOrchestrator._select_displayable_color(colors), for any palette
\* extract_dominant_colors returns
CallSelect ==
    /\ call.fn = "none"
    /\ \E colors \in Palettes \cup {ImportErrorPalette} :
          \E r \in select_displayable_color(colors) :
              call' = [fn |-> "select_displayable_color", arg |-> colors, res |-> r]
    /\ UNCHANGED <<loop_vars, boot, api>>

\* ColorProcessor._extract_colors_opencv(image_data, n) from the return of
\* cv2.kmeans(pixels, n * 2, ...) on, for any such return
CallExtract ==
    /\ call.fn = "none"
    /\ \E n \in 1..MaxN : \E km \in Clusterings(2 * n) :
          \E r \in extract_colors_opencv(km.centers, km.counts, n) :
              call' = [fn |-> "extract_colors_opencv",
                       arg |-> [centers |-> km.centers, counts |-> km.counts,
                                num_colors |-> n],
                       res |-> r]
    /\ UNCHANGED <<loop_vars, boot, api>>

\* the call returns to its caller
Return ==
    /\ call.fn # "none"
    /\ call' = [fn |-> "none"]
    /\ UNCHANGED <<loop_vars, boot, api>>

NextColor ==
    \/ CallDisplayable
    \/ CallSelect
    \/ CallExtract
    \/ Return

SpecColor == InitColor /\ [][NextColor]_vars

-----------------------------------------------------------------------------
(* Start-up: main() loads the configuration, constructs the orchestrator and
   calls start *)

\* What opening a configuration file may do: it is read and parsed, it does
\* not exist, it does not parse, or open raises another OSError.
FileOutcomes == {"ok", "missing", "malformed", "denied"}

\* An entry of endpoints.json of type smartthings: complete and reachable,
\* without device_id, or complete with connect() returning False.
EntryKinds == {"valid", "no_device_id", "unreachable"}

EndpointFiles == UNION {[1..k -> EntryKinds] : k \in 0..MaxEntries}

\* _load_yaml and _load_json: the parsed content, or the empty default when
\* the file is missing or does not parse
load_file(outcome, content) == IF outcome = "ok" THEN content ELSE <<>>

InitStartup ==
    /\ InitLoop
    /\ config_ok
    /\ call = None
    /\ api = None
    /\ \E y \in FileOutcomes, j \in FileOutcomes, es \in EndpointFiles :
          /\ j # "ok" => es = <<>>
          /\ boot = [stage |-> "main", yaml |-> y, json |-> j, file |-> es,
                     configs |-> <<>>, i |-> 1, endpoints |-> <<>>,
                     raised |-> FALSE, started |-> FALSE]

\* ConfigLoader(): both files are loaded, a missing or malformed one as empty
LoadConfig ==
    /\ boot.stage = "main"
    /\ boot.yaml # "denied" /\ boot.json # "denied"
    /\ boot' = [boot EXCEPT !.stage = "endpoints",
                            !.configs = load_file(boot.json, boot.file)]
    /\ UNCHANGED <<loop_vars, call, api>>

\* ConfigLoader(): open raises an exception the loaders do not catch; main
\* prints it and exits with status 1
LoadConfigRaises ==
    /\ boot.stage = "main"
    /\ boot.yaml = "denied" \/ boot.json = "denied"
    /\ boot' = [boot EXCEPT !.stage = "exit", !.raised = TRUE]
    /\ UNCHANGED <<loop_vars, call, api>>

\* one pass of the for loop of _initialize_endpoints: the ValueError of an
\* entry without device_id is caught and printed, an endpoint that does not
\* connect is left out
InitializeEndpoint ==
    /\ boot.stage = "endpoints"
    /\ boot.i <= Len(boot.configs)
    /\ boot' = [boot EXCEPT
                  !.i = @ + 1,
                  !.endpoints = IF boot.configs[boot.i] = "valid"
                                THEN Append(@, boot.i) ELSE @]
    /\ UNCHANGED <<loop_vars, call, api>>

\* start() without an endpoint: prints and returns
StartRefused ==
    /\ boot.stage = "endpoints"
    /\ boot.i > Len(boot.configs)
    /\ boot.endpoints = <<>>
    /\ boot' = [boot EXCEPT !.stage = "paused"]
    /\ UNCHANGED <<loop_vars, call, api>>

\* start() with an endpoint: running = True and the polling thread starts
StartLoop ==
    /\ boot.stage = "endpoints"
    /\ boot.i > Len(boot.configs)
    /\ boot.endpoints # <<>>
    /\ boot' = [boot EXCEPT !.stage = "paused", !.started = TRUE]
    /\ UNCHANGED <<loop_vars, call, api>>

NextStartup ==
    \/ LoadConfig
    \/ LoadConfigRaises
    \/ InitializeEndpoint
    \/ StartRefused
    \/ StartLoop

SpecStartup == InitStartup /\ [][NextStartup]_vars

-----------------------------------------------------------------------------
(* start and stop called in any order by one caller, and the polling threads
   the calls create *)

Workers == 1..MaxStarts

\* A polling thread is "unborn" (not created), at the "while" test, in one of
\* the three parts of a tick ("lookup", "sync", "sleep") or "exited".
InitApi ==
    /\ InitLoop
    /\ config_ok
    /\ call = None
    /\ boot = None
    /\ api = [running |-> FALSE, poll_thread |-> 0,
              worker |-> [w \in Workers |-> "unborn"],
              caller |-> "idle", disconnects |-> 0]

\* start(): no test of running or of an earlier poll_thread; a new thread is
\* created and poll_thread is overwritten
ApiStart ==
    /\ api.caller \in {"idle", "stopped"}
    /\ \E w \in Workers :
          /\ api.worker[w] = "unborn"
          /\ \A v \in Workers : v < w => api.worker[v] # "unborn"
          /\ api' = [api EXCEPT !.running = TRUE, !.poll_thread = w,
                                !.worker[w] = "while", !.caller = "idle"]
    /\ UNCHANGED <<loop_vars, call, boot>>

\* stop() up to the join: running = False, every endpoint disconnected; it
\* returns here when start was never called (no poll_thread attribute)
ApiStop ==
    /\ api.caller \in {"idle", "stopped"}
    /\ api.disconnects < MaxStarts + 1
    /\ api' = [api EXCEPT !.running = FALSE,
                          !.disconnects = @ + 1,
                          !.caller = IF api.poll_thread = 0 THEN "stopped" ELSE "join"]
    /\ UNCHANGED <<loop_vars, call, boot>>

\* self.poll_thread.join() returns once the thread poll_thread names is over
ApiStopJoin ==
    /\ api.caller = "join"
    /\ api.worker[api.poll_thread] = "exited"
    /\ api' = [api EXCEPT !.caller = "stopped"]
    /\ UNCHANGED <<loop_vars, call, boot>>

\* while self.running, in thread w
WorkerWhile(w) ==
    /\ api.worker[w] = "while"
    /\ api' = [api EXCEPT !.worker[w] = IF api.running THEN "lookup" ELSE "exited"]
    /\ UNCHANGED <<loop_vars, call, boot>>

\* thread w goes through its tick: lookup, then lighting, then sleep
WorkerStep(w) ==
    /\ api.worker[w] \in {"lookup", "sync", "sleep"}
    /\ api' = [api EXCEPT !.worker[w] =
                  CASE @ = "lookup" -> "sync"
                    [] @ = "sync" -> "sleep"
                    [] @ = "sleep" -> "while"]
    /\ UNCHANGED <<loop_vars, call, boot>>

NextApi ==
    \/ ApiStart
    \/ ApiStop
    \/ ApiStopJoin
    \/ \E w \in Workers : WorkerWhile(w)
    \/ \E w \in Workers : WorkerStep(w)

SpecApi == InitApi /\ [][NextApi]_vars

-----------------------------------------------------------------------------
(* The collaborators: SpotifyHandler and SmartThingsEndpoint, called on their
   own.  call holds the last call and the endpoint it was made on. *)

\* What sp.current_user_playing_track() may do: raise, return None, return a
\* response with is_playing false, return a response without the expected
\* keys, or return a playing item.
PlayingResponses ==
    {[kind |-> k, item |-> None] : k \in {"raise", "none", "paused", "malformed"}}
        \cup {[kind |-> "playing", item |-> t] : t \in Tracks}

\* What a request may do: raise (no network, timeout), or return with a
\* status; "200_no_json" is a 200 whose body response.json() cannot parse.
HttpOutcomes == {"raise", "200", "200_no_json", "401"}

\* an exception goes through to the caller
except_Exception_propagates(value, n) ==
    [res |-> None, raised |-> TRUE, requests |-> n]

\* except Exception as e: print(...); return value
except_Exception(value, n) == [res |-> value, raised |-> FALSE, requests |-> n]

\* return value, after n requests were sent
returns(value, n) == [res |-> value, raised |-> FALSE, requests |-> n]

\* SpotifyHandler.get_current_track
get_current_track(response) ==
    IF response.kind \in {"raise", "malformed"} THEN except_Exception(None, 1)
    ELSE IF response.kind \in {"none", "paused"} THEN returns(None, 1)
    ELSE returns(response.item, 1)

\* SpotifyHandler.download_album_art
download_album_art(art_url, http) ==
    IF art_url = NoArt THEN returns(None, 0)
    ELSE IF http \in {"200", "200_no_json"} THEN returns("bytes", 1)
    ELSE except_Exception(None, 1)

\* SmartThingsEndpoint.connect
connect(access_token, http) ==
    IF ~access_token THEN returns(FALSE, 0)
    ELSE IF http = "raise" THEN except_Exception(FALSE, 1)
    ELSE returns(http \in {"200", "200_no_json"}, 1)

\* SmartThingsEndpoint.set_color: the response is printed with
\* response.json() before the status is compared
set_color(access_token, rgb, http) ==
    IF ~access_token THEN returns(FALSE, 0)
    ELSE IF http \in {"raise", "200_no_json"} THEN except_Exception(FALSE, 1)
    ELSE returns(http = "200", 1)

\* SmartThingsEndpoint.disconnect
disconnect == returns(TRUE, 0)

\* the record of a call: the operation, its argument, what the request did
\* and what the operation handed back
Outcome(fn, arg, http, out) ==
    [fn |-> fn, arg |-> arg, http |-> http,
     res |-> out.res, raised |-> out.raised, requests |-> out.requests]

NoCall == [fn |-> "none"]

InitCollab ==
    /\ InitLoop
    /\ config_ok
    /\ boot = None
    /\ api = None
    /\ \E token \in BOOLEAN :
          call = [access_token |-> token, disconnects |-> 0, last |-> NoCall]

CallGetCurrentTrack ==
    /\ call.last.fn = "none"
    /\ \E response \in PlayingResponses :
          call' = [call EXCEPT !.last =
                      Outcome("get_current_track", response, "na",
                              get_current_track(response))]
    /\ UNCHANGED <<loop_vars, boot, api>>

CallDownloadAlbumArt ==
    /\ call.last.fn = "none"
    /\ \E art_url \in {NoArt, "url1"}, http \in HttpOutcomes :
          call' = [call EXCEPT !.last =
                      Outcome("download_album_art", art_url, http,
                              download_album_art(art_url, http))]
    /\ UNCHANGED <<loop_vars, boot, api>>

CallConnect ==
    /\ call.last.fn = "none"
    /\ \E http \in HttpOutcomes :
          call' = [call EXCEPT !.last =
                      Outcome("connect", None, http,
                              connect(call.access_token, http))]
    /\ UNCHANGED <<loop_vars, boot, api>>

CallSetColor ==
    /\ call.last.fn = "none"
    /\ \E rgb \in Colors \cup {DefaultColor}, http \in HttpOutcomes :
          call' = [call EXCEPT !.last =
                      Outcome("set_color", rgb, http,
                              set_color(call.access_token, rgb, http))]
    /\ UNCHANGED <<loop_vars, boot, api>>

CallDisconnect ==
    /\ call.last.fn = "none"
    /\ call.disconnects < MaxDisconnects
    /\ call' = [call EXCEPT !.disconnects = @ + 1,
                            !.last = Outcome("disconnect", None, "na", disconnect)]
    /\ UNCHANGED <<loop_vars, boot, api>>

\* the operation returns to its caller
CollabReturn ==
    /\ call.last.fn # "none"
    /\ ~call.last.raised
    /\ call' = [call EXCEPT !.last = NoCall]
    /\ UNCHANGED <<loop_vars, boot, api>>

NextCollab ==
    \/ CallGetCurrentTrack
    \/ CallDownloadAlbumArt
    \/ CallConnect
    \/ CallSetColor
    \/ CallDisconnect
    \/ CollabReturn

SpecCollab == InitCollab /\ [][NextCollab]_vars

-----------------------------------------------------------------------------
(* Properties *)

\* the tick the record describes has finished its _sync_lighting call, if any
SyncOver == pc \in {"after", "sleep", "while", "exited"}

\* C1: on a tick whose lookup returns a track that differs by value from the
\* recorded current track, that track becomes the current track, the retry
\* counter is 0 and _sync_lighting runs exactly once within the tick.
C1_NewTrackSyncsOnce ==
    (tick.looked /\ tick.lookup # None /\ tick.lookup # tick.prev_track) =>
        /\ current_track = tick.lookup
        /\ retries = 0
        /\ tick.sync_calls = IF pc = "sync" THEN 0 ELSE 1

\* C1 happens: a track replaced another one while retries were being counted.
C1_Witness ==
    /\ pc = "sleep"
    /\ tick.lookup = TrackA
    /\ tick.prev_track = TrackB
    /\ tick.prev_retries > 0
    /\ tick.sync_calls = 1

\* C2: when two consecutive ticks look up the same track, the second tick
\* makes no set_color call.
C2_SameTrackNoWrite ==
    (tick.looked /\ tick.lookup # None /\ prev_lookup = tick.lookup) =>
        tick.called = <<>>

\* C2 happens: the second of two ticks that found TrackA ends, the lights
\* having been written before.
C2_Witness ==
    /\ pc = "sleep"
    /\ tick.lookup = TrackA
    /\ prev_lookup = TrackA
    /\ \A e \in Endpoints : sent[e] # None

\* C3: the colour _apply_color passes to an endpoint differs from the last
\* applied colour and from the colour of that endpoint's previous set_color.
C3_NoRepeatedColor ==
    pc = "write" => color # tick.prev_last /\ color # sent[idx]

\* C3 happens: an apply of the colour the endpoints received last was skipped.
C3_Witness ==
    /\ pc = "after"
    /\ tick.skipped
    /\ \A e \in Endpoints : sent[e] = last_applied_color

\* C4: when every set_color of an apply pass fails, the last applied colour
\* keeps the value it had before the pass.
C4_LastAppliedOnlyAfterSuccess ==
    (pc = "after" /\ tick.applied /\
     \A i \in DOMAIN tick.outcome : tick.outcome[i] # "ok") =>
        last_applied_color = tick.prev_last

\* C5: within an apply pass every endpoint before the loop's position has
\* received its set_color whatever the earlier outcomes were, and once the
\* pass is over every endpoint has received exactly one, the tick going on.
C5_FailureIsolation ==
    /\ pc = "write" => tick.called = [i \in 1..(idx - 1) |-> i]
    /\ (tick.applied /\ SyncOver) => tick.called = [i \in Endpoints |-> i]

\* C5 happens: the first endpoint raised, the second returned False, and the
\* tick reached its sleep with every endpoint called.
C5_Witness ==
    /\ pc = "sleep"
    /\ Len(tick.called) = NumEndpoints
    /\ tick.outcome[1] = "raise"
    /\ tick.outcome[2] = "fail"

\* C6: every colour an endpoint received has all its channels in 20..235 or
\* is the fallback (255,255,255).
C6_OnlyDisplayableOrFallback ==
    \A e \in Endpoints :
        sent[e] # None =>
            \/ \A i \in 1..3 : 20 <= sent[e][i] /\ sent[e][i] <= 235
            \/ sent[e] = <<255, 255, 255>>

\* C6 happens: the palette held a candidate that is not displayable and the
\* endpoints received a displayable one.
C6_Witness ==
    /\ pc = "after"
    /\ tick.applied
    /\ tick.undisplayable
    /\ \A e \in Endpoints : sent[e] = Grey

\* C7 (as amended): in an uninterrupted no-track period every endpoint
\* receives the default colour at most once; once the null-track pipeline has
\* run, it has received it exactly once if the last applied colour at the
\* start of the period was not the default, and not at all if it was.
C7_DefaultAtMostOncePerStreak ==
    \A e \in Endpoints :
        /\ streak.writes[e] <= 1
        /\ streak.degraded >= 1 =>
               streak.writes[e] = IF streak.start_color = DefaultColor THEN 0 ELSE 1

\* C7 as claimed: once the null-track pipeline has run in a no-track period,
\* every endpoint has received the default colour exactly once.
C7_DefaultExactlyOnce ==
    streak.degraded >= 1 => \A e \in Endpoints : streak.writes[e] = 1

\* C7 happens: the null-track pipeline ran twice in one no-track period and
\* every endpoint received the default colour once.
C7_Witness ==
    /\ pc = "sleep"
    /\ streak.degraded >= 2
    /\ \A e \in Endpoints : streak.writes[e] = 1

\* C8: a tick that finds no track within the grace window counted from the
\* first failed lookup leaves the retry counter alone, runs no pipeline and
\* writes to no device.
C8_GraceFromFirstFailure ==
    (tick.looked /\ tick.lookup = None /\ tick.in_grace) =>
        /\ retries = tick.prev_retries
        /\ tick.sync_calls = 0
        /\ tick.called = <<>>

\* C9: the retry counter stays within 0..max_retries, the null-track pipeline
\* runs only on a lookup preceded by max_retries consecutive no-track lookups
\* past the grace period, and the counter is 0 once the default was applied.
C9_RetryCounterDiscipline ==
    /\ retries \in 0..max_retries
    /\ tick.branch = "degraded" => tick.consec >= max_retries
    /\ (tick.branch = "degraded" /\ pc \in {"sleep", "while", "exited"}) => retries = 0

\* C10: when the artwork of a newly detected track is absent, cannot be
\* downloaded or cannot be decoded, the default colour is the applied colour
\* once the tick's _sync_lighting call is over.
C10_UnusableArtworkGetsDefault ==
    (tick.branch = "new" /\ tick.art \in {"absent", "failed", "corrupt"} /\ SyncOver) =>
        last_applied_color = DefaultColor

\* C11: every lookup of the Spotify track except the first is preceded by a
\* sleep since the lookup before it (the original statement; the continue of
\* the grace branch starts the next lookup without one).
C11_SleepBetweenLookups == tick.looked => tick.slept_before

\* C14: an exception inside a tick (a download, an extraction, an endpoint
\* write or the loop's own interval lookup that raises) does not end the
\* worker: it leaves the loop only once running is False.
C14_ExceptionDoesNotEndLoop == pc = "exited" => ~running

\* the iteration before this one ended in the loop's except clause, and this
\* one did its lookup and went on after its artwork download failed
C14_Witness ==
    /\ running /\ pc = "sleep"
    /\ tick.looked /\ tick.after_raise /\ tick.art = "failed"

\* the call the state records is a call of the selector
Selected == call.fn = "select_displayable_color"

\* the candidates of the recorded selector call: centre list, then global list
Candidates == call.arg.center_colors \o call.arg.global_colors

\* C16: _select_displayable_color returns one RGB colour (three channels in
\* 0..255) for every palette, the one with empty lists and the one with only
\* a blended list included.
C16_SelectorTotal ==
    Selected =>
        /\ Len(call.res) = 3
        /\ \A i \in 1..3 : call.res[i] \in 0..255

\* the palette of the ImportError path, which has only blended_colors
C16_Witness ==
    Selected /\ call.arg = ImportErrorPalette /\ call.res = DefaultColor

\* C17: when a candidate is displayable, the selector returns the first
\* displayable colour of the centre list followed by the global list (the
\* original statement; the lists go through a set before the scan).
C17_FirstDisplayableInOrder ==
    (Selected /\ \E i \in DOMAIN Candidates : is_color_displayable(Candidates[i])) =>
        call.res = Head(SelectSeq(Candidates, is_color_displayable))

\* C18: when no candidate is displayable the selector returns (255,255,255),
\* whether or not there are candidates.
C18_DefaultWhenNoneDisplayable ==
    (Selected /\ \A i \in DOMAIN Candidates : ~is_color_displayable(Candidates[i])) =>
        call.res = DefaultColor

\* candidates exist, none of them displayable
C18_Witness ==
    /\ Selected /\ Candidates # <<>>
    /\ \A i \in DOMAIN Candidates : ~is_color_displayable(Candidates[i])
    /\ call.res = DefaultColor

\* C18 as stated: with no displayable candidate the selector returns the
\* first candidate, and (255,255,255) only when there is no candidate.
C18_FirstCandidateFallback ==
    (Selected /\ \A i \in DOMAIN Candidates : ~is_color_displayable(Candidates[i])) =>
        call.res = IF Candidates # <<>> THEN Head(Candidates) ELSE DefaultColor

\* C19: is_color_displayable accepts a colour exactly when its three channels
\* all lie in 20..235, bounds included.
C19_DisplayableRange ==
    call.fn = "is_color_displayable" =>
        (call.res <=> \A i \in 1..3 : 20 <= call.arg[i] /\ call.arg[i] <= 235)

\* a colour on both bounds is accepted
C19_Witness ==
    /\ call.fn = "is_color_displayable"
    /\ call.arg = <<20, 235, 128>>
    /\ call.res = TRUE

\* C20: for any clustering outcome, clusters without a pixel included, the
\* extractor returns the centroids of the populated clusters by pixel count
\* descending, without those of average intensity below 30, cut to at most
\* num_colors (the original statement; the counts of the populated clusters
\* are indexed as if every cluster were populated).
C20_PopulatedCentroidsByCount ==
    call.fn = "extract_colors_opencv" =>
        LET labels == unique_labels(call.arg.counts)
            populated == [j \in 1..Len(labels) |->
                             [center |-> call.arg.centers[labels[j]],
                              count |-> call.arg.counts[labels[j]]]]
        IN  \E perm \in argsort_desc([j \in 1..Len(labels) |-> populated[j].count]) :
                LET by_count == [j \in 1..Len(labels) |-> populated[perm[j]].center]
                    bright == SelectSeq(by_count, LAMBDA c : c[1] + c[2] + c[3] >= 3 * 30)
                IN  call.res = SubSeq(bright, 1, Min(call.arg.num_colors, Len(bright)))

\* the configuration main() was given is misconfigured: a file that cannot be
\* read, or an endpoint entry without device_id
Misconfigured ==
    \/ boot.yaml # "ok"
    \/ boot.json # "ok"
    \/ \E k \in DOMAIN boot.file : boot.file[k] = "no_device_id"

\* C15: with a misconfiguration, start-up ends in an error surfaced to the
\* caller and the polling loop is never started (the original statement; the
\* loaders and _initialize_endpoints catch these errors and go on).
C15_MisconfigurationFatal ==
    Misconfigured =>
        /\ ~boot.started
        /\ boot.stage = "paused" => boot.raised

\* the polling threads that have started and not returned
Alive == {w \in Workers : api.worker[w] \notin {"unborn", "exited"}}

\* C12: when a call of stop has returned, no polling thread of the
\* orchestrator is still inside a tick and every endpoint has been disconnected
\* (the original statement; stop joins only the thread started last).
C12_StopQuiesces ==
    api.caller = "stopped" =>
        /\ \A w \in Workers : api.worker[w] \notin {"lookup", "sync", "sleep"}
        /\ api.disconnects > 0

\* C13: under any sequence of start and stop calls at most one polling
\* thread is alive (the original statement; start does not test whether a
\* thread is running already).
C13_AtMostOneWorker == Cardinality(Alive) <= 1

\* a collaborator operation has been called and has ended
Called(fn) == IF call.last.fn = "none" THEN FALSE ELSE call.last.fn = fn

\* C21: no collaborator operation raises to its caller.  get_current_track
\* returns None on an error or when nothing plays, download_album_art returns
\* None on an empty reference or a failed request, connect and set_color
\* return False when the token is missing (without a request) or the request
\* fails, and disconnect returns True however often it is called.
C21_FailureByValue ==
    call.last.fn # "none" =>
        /\ ~call.last.raised
        /\ (Called("get_current_track") /\ call.last.arg.kind # "playing")
              => call.last.res = None
        /\ (Called("download_album_art")
               /\ (call.last.arg = NoArt \/ call.last.http \in {"raise", "401"}))
              => call.last.res = None
        /\ (Called("download_album_art") /\ call.last.arg = NoArt)
              => call.last.requests = 0
        /\ ((Called("connect") \/ Called("set_color")) /\ ~call.access_token)
              => call.last.res = FALSE /\ call.last.requests = 0
        /\ ((Called("connect") \/ Called("set_color"))
               /\ call.last.http \in {"raise", "401"})
              => call.last.res = FALSE
        /\ Called("disconnect") => call.last.res = TRUE

\* a set_color whose request raised has returned False, on an endpoint with a
\* token that disconnect was called on more than once
C21_Witness ==
    /\ Called("set_color")
    /\ call.access_token /\ call.last.http = "raise"
    /\ call.last.res = FALSE /\ ~call.last.raised
    /\ call.disconnects = 2

\* C22: once the default colour has been applied because no track was
\* detected, a tick whose lookup returns a track with artwork runs the sync
\* pipeline for it, also when the track equals the one recorded before the
\* outage (the original statement; _current_track is not cleared when the
\* default is applied, so the same track is not seen as new).
C22_ResyncAfterDefault ==
    (tick.defaulted /\ tick.looked /\ HasArt(tick.lookup) /\ SyncOver) =>
        tick.sync_calls = 1

\* C23: no endpoint receives a set_color call after stop has called
\* disconnect on it (the original statement; stop disconnects the endpoints
\* before it joins the polling thread, whose tick may still be writing).
C23_NoWriteAfterDisconnect == ~tick.late_write

=============================================================================
